---------------------------- MODULE Spec2Model ----------------------------
(***************************************************************************)
(* cron-test: CronExpression._parseField, CronExpression.parse and         *)
(* CronExpression.prototype.test, modelled on JavaScript strings and       *)
(* numbers.  Field texts and expressions are TLA+ strings; the compiled    *)
(* fields are sequences of numbers.                                        *)
(***************************************************************************)
EXTENDS Integers, Sequences, FiniteSets, TLC

VARIABLES
    pc,          \* position of the caller: which call was made last
    field,       \* _parseField: field name
    value,       \* _parseField: field text
    parsed,      \* _parseField: what the call produced (a sequence or a throw)
    expression,  \* parse: the expression text
    fields,      \* the CronExpression's _fields (or the throw of parse)
    inputDate,   \* test: the calendar components of the instant
    outcome,     \* test: "true", "false" or the message thrown
    matchArgs,   \* matchSchedule: [value, sequence]
    matchRet     \* matchSchedule: the boolean returned

vars == <<pc, field, value, parsed, expression, fields, inputDate, outcome,
          matchArgs, matchRet>>

-----------------------------------------------------------------------------
(* JavaScript numbers.  The numbers held are the integers from -2147483647  *)
(* to 2147483647.  NaN is a number that compares false with everything      *)
(* (itself included); it is written as the one integer below them, which no *)
(* text evaluates to (the value of ten digits and more is not computed) and *)
(* no arithmetic of the code reaches.                                       *)

NaN == -2147483647 - 1

safeIsNaN(x) == x = NaN

JsLt(a, b) == ~safeIsNaN(a) /\ ~safeIsNaN(b) /\ a < b
JsGt(a, b) == ~safeIsNaN(a) /\ ~safeIsNaN(b) /\ a > b
JsGe(a, b) == ~safeIsNaN(a) /\ ~safeIsNaN(b) /\ a >= b
JsStrictEq(a, b) == ~safeIsNaN(a) /\ ~safeIsNaN(b) /\ a = b

\* a % b of JavaScript for b > 0: the sign follows the dividend
JsMod(a, b) ==
    IF safeIsNaN(a) \/ safeIsNaN(b) THEN NaN
    ELSE IF a >= 0 THEN a % b ELSE 0 - ((0 - a) % b)

\* Math.max.apply(Math, stack) for a stack that is not empty: NaN when an
\* element is NaN, the greatest element otherwise
MathMax(stack) ==
    IF \E i \in 1..Len(stack) : safeIsNaN(stack[i]) THEN NaN
    ELSE LET i == CHOOSE k \in 1..Len(stack) :
                      \A j \in 1..Len(stack) : stack[k] >= stack[j]
         IN  stack[i]

-----------------------------------------------------------------------------
(* JavaScript strings *)

At(s, i) == SubSeq(s, i, i)

LowerLetters == "abcdefghijklmnopqrstuvwxyz"
UpperLetters == "ABCDEFGHIJKLMNOPQRSTUVWXYZ"
DigitChars == "0123456789"

\* the 1-based position of the character c in s, 0 when it is not there
IndexOf(c, s) ==
    LET hits == {i \in 1..Len(s) : At(s, i) = c}
    IN  IF hits = {} THEN 0 ELSE CHOOSE i \in hits : \A j \in hits : i <= j

IsDigit(c) == IndexOf(c, DigitChars) > 0
IsLetter(c) == IndexOf(c, LowerLetters) > 0 \/ IndexOf(c, UpperLetters) > 0
DigitVal(c) == IndexOf(c, DigitChars) - 1

\* String.prototype.toLowerCase
RECURSIVE toLowerCase(_)
toLowerCase(s) ==
    IF Len(s) = 0 THEN ""
    ELSE LET c == At(s, 1)
             u == IndexOf(c, UpperLetters)
         IN  (IF u > 0 THEN At(LowerLetters, u) ELSE c)
                 \o toLowerCase(SubSeq(s, 2, Len(s)))

\* String.prototype.split with a one-character separator
RECURSIVE split(_, _)
split(s, sep) ==
    LET k == IndexOf(sep, s)
    IN  IF k = 0 THEN <<s>>
        ELSE <<SubSeq(s, 1, k - 1)>> \o split(SubSeq(s, k + 1, Len(s)), sep)

\* the digits of s: s.replace(/\D/g, '')
RECURSIVE stripNonDigits(_)
stripNonDigits(s) ==
    IF Len(s) = 0 THEN ""
    ELSE (IF IsDigit(At(s, 1)) THEN At(s, 1) ELSE "")
             \o stripNonDigits(SubSeq(s, 2, Len(s)))

\* the value of a string of digits
RECURSIVE DigitsValue(_)
DigitsValue(s) ==
    IF Len(s) = 0 THEN 0
    ELSE 10 * DigitsValue(SubSeq(s, 1, Len(s) - 1)) + DigitVal(At(s, Len(s)))

AllDigits(s) == \A i \in 1..Len(s) : IsDigit(At(s, i))

\* parseInt(s, 10) of a string of digits: NaN when there is no digit
parseInt(s) == IF Len(s) = 0 THEN NaN ELSE DigitsValue(s)

\* the unary + of a string made of digits, '-' and '|' (what is left of a
\* field text once it is split on ',' and '/'): the empty string is 0, an
\* optionally signed run of digits is its value, anything else is NaN
ToNumber(s) ==
    IF Len(s) = 0 THEN 0
    ELSE IF AllDigits(s) THEN DigitsValue(s)
    ELSE IF At(s, 1) = "-" /\ Len(s) > 1 /\ AllDigits(SubSeq(s, 2, Len(s)))
         THEN 0 - DigitsValue(SubSeq(s, 2, Len(s)))
    ELSE NaN


-----------------------------------------------------------------------------
(* The tables of CronExpression *)

map == <<"second", "minute", "hour", "dayOfMonth", "month", "dayOfWeek">>

predefined ==
    [e \in {"@yearly", "@monthly", "@weekly", "@daily", "@hourly"} |->
        CASE e = "@yearly"  -> "0 0 1 1 *"
          [] e = "@monthly" -> "0 0 1 * *"
          [] e = "@weekly"  -> "0 0 * * 0"
          [] e = "@daily"   -> "0 0 * * *"
          [] e = "@hourly"  -> "0 * * * *"]

constraints ==
    << <<0, 59>>,   \* Second
       <<0, 59>>,   \* Minute
       <<0, 23>>,   \* Hour
       <<1, 31>>,   \* Day of month
       <<1, 12>>,   \* Month
       <<0, 7>> >>  \* Day of week

daysInMonth == <<31, 28, 31, 30, 31, 30, 31, 31, 30, 31, 30, 31>>

monthAliases ==
    [a \in {"jan", "feb", "mar", "apr", "may", "jun",
            "jul", "aug", "sep", "oct", "nov", "dec"} |->
        CASE a = "jan" -> 1 [] a = "feb" -> 2 [] a = "mar" -> 3
          [] a = "apr" -> 4 [] a = "may" -> 5 [] a = "jun" -> 6
          [] a = "jul" -> 7 [] a = "aug" -> 8 [] a = "sep" -> 9
          [] a = "oct" -> 10 [] a = "nov" -> 11 [] a = "dec" -> 12]

dayOfWeekAliases ==
    [a \in {"sun", "mon", "tue", "wed", "thu", "fri", "sat"} |->
        CASE a = "sun" -> 0 [] a = "mon" -> 1 [] a = "tue" -> 2
          [] a = "wed" -> 3 [] a = "thu" -> 4 [] a = "fri" -> 5
          [] a = "sat" -> 6]

aliases(fieldName) ==
    IF fieldName = "month" THEN monthAliases ELSE dayOfWeekAliases

\* a variant: the seconds default to 0
parseDefaultsSecondZero == <<"0", "*", "*", "*", "*", "*">>

parseDefaults == <<"*", "*", "*", "*", "*", "*">>

\* the index (1-based) of a field name in map
FieldIndex(fieldName) == CHOOSE i \in 1..Len(map) : map[i] = fieldName

-----------------------------------------------------------------------------
(* The messages of the errors thrown *)

NoThrow == "none"
ErrAlias == "Cannot resolve alias"
ErrCharacters == "Invalid characters"
ErrConstraintValue == "Constraint error, got value"
ErrConstraintRange == "Constraint error, got range"
ErrInvalidRange == "Invalid range"
ErrRepeat == "Constraint error, cannot repeat"
ErrDayOfMonth == "Invalid explicit day of month definition"

-----------------------------------------------------------------------------
(* CronExpression._parseField *)

\* the callback of value.replace(/[a-z]{1,3}/gi, ...): `typeof aliases[match]
\* !== undefined` compares a string with undefined and is always true, so
\* the callback returns aliases[match] whatever the match; replace() writes
\* the string of what it returns, "undefined" for a name not in the table
aliasCallback(fieldName, match) ==
    LET m == toLowerCase(match)
    IN  IF m \in DOMAIN aliases(fieldName)
        THEN ToString(aliases(fieldName)[m])
        ELSE "undefined"

\* the length of the run of letters that starts s, cut at 3: one match of
\* /[a-z]{1,3}/gi
LetterRun(s) ==
    IF Len(s) >= 3 /\ IsLetter(At(s, 1)) /\ IsLetter(At(s, 2)) /\ IsLetter(At(s, 3))
    THEN 3
    ELSE IF Len(s) >= 2 /\ IsLetter(At(s, 1)) /\ IsLetter(At(s, 2)) THEN 2
    ELSE IF Len(s) >= 1 /\ IsLetter(At(s, 1)) THEN 1
    ELSE 0

RECURSIVE replaceAliases(_, _)
replaceAliases(fieldName, s) ==
    IF Len(s) = 0 THEN ""
    ELSE LET n == LetterRun(s)
         IN  IF n = 0
             THEN At(s, 1) \o replaceAliases(fieldName, SubSeq(s, 2, Len(s)))
             ELSE aliasCallback(fieldName, SubSeq(s, 1, n))
                      \o replaceAliases(fieldName, SubSeq(s, n + 1, Len(s)))

\* /^[\d|/|*|\-|,]+$/.test(s)
validCharacters(s) ==
    /\ Len(s) > 0
    /\ \A i \in 1..Len(s) :
           IsDigit(At(s, i)) \/ At(s, i) \in {"|", "/", "*", "-", ","}

\* s.replace(/\*/g, constraints.join('-'))
RECURSIVE replaceWildcard(_, _)
replaceWildcard(s, c) ==
    IF Len(s) = 0 THEN ""
    ELSE (IF At(s, 1) = "*" THEN ToString(c[1]) \o "-" \o ToString(c[2])
          ELSE At(s, 1))
             \o replaceWildcard(SubSeq(s, 2, Len(s)), c)

\* one turn of the loop of parseRange at `index`: st holds the counter
\* repeatIndex and the stack, n is the step
repeatTurn(index, st, n) ==
    IF st.repeatIndex > 0 /\ (st.repeatIndex % n) = 0
    THEN [repeatIndex |-> 1, stack |-> Append(st.stack, index)]
    ELSE [repeatIndex |-> st.repeatIndex + 1, stack |-> st.stack]

\* the turns from `index` to `count`, in order.  The span is halved and the
\* first half is evaluated before the second is entered (its counter, which
\* is always positive, is read), which keeps the evaluation shallow
RECURSIVE repeatLoop(_, _, _, _)
repeatLoop(index, count, st, n) ==
    IF index > count THEN st
    ELSE IF index = count THEN repeatTurn(index, st, n)
    ELSE LET mid == (index + count) \div 2
             half == repeatLoop(index, mid, st, n)
         IN  IF half.repeatIndex > 0
             THEN repeatLoop(mid + 1, count, half, n)
             ELSE half

\* a variant: the counter starts at 1
repeatStartAtOne(n) == 1

\* the counter of the loop starts at the step itself: var repeatIndex =
\* +repeatInterval
repeatStart(n) == n

scalarResult(x) == [threw |-> NoThrow, isArray |-> FALSE, result |-> x]
arrayResult(s) == [threw |-> NoThrow, isArray |-> TRUE, result |-> s]
thrown(msg) == [threw |-> msg, isArray |-> FALSE, result |-> 0]

\* parseRange(val, repeatInterval); repeatInterval is the text after the
\* last '/', or "1" for the number 1 parseRepeat passes
parseRange(val, repeatInterval, c) ==
    LET atoms == split(val, "-")
    IN  IF Len(atoms) > 1
        THEN IF Len(atoms[1]) = 0
             THEN scalarResult(ToNumber(val))
             ELSE LET min == ToNumber(atoms[1])
                      max == ToNumber(atoms[2])
                      repeatIndex == ToNumber(repeatInterval)
                  IN  IF \/ safeIsNaN(min) \/ safeIsNaN(max)
                         \/ JsLt(min, c[1]) \/ JsGt(max, c[2])
                      THEN thrown(ErrConstraintRange)
                      ELSE IF min >= max
                      THEN thrown(ErrInvalidRange)
                      ELSE IF safeIsNaN(repeatIndex) \/ repeatIndex <= 0
                      THEN thrown(ErrRepeat)
                      ELSE arrayResult(
                               repeatLoop(min, max,
                                          [repeatIndex |-> repeatStart(repeatIndex),
                                           stack |-> <<>>],
                                          repeatIndex).stack)
        ELSE scalarResult(ToNumber(val))

parseRepeat(val, c) ==
    LET atoms == split(val, "/")
    IN  IF Len(atoms) > 1
        THEN parseRange(atoms[1], atoms[Len(atoms)], c)
        ELSE parseRange(val, "1", c)

\* one turn of the array branch of handleResult, on the element v: st holds
\* the stack, the running maximum and what was thrown (a throw ends the
\* loop).  max is -1 for an empty stack, as line 180 sets it; the elements
\* of a range are 0 or more, so the first one is pushed and the stack is
\* not empty when Math.max is taken of it
arrayTurn(v, st, c) ==
    IF st.threw # NoThrow THEN st
    ELSE IF JsLt(v, c[1]) \/ JsGt(v, c[2])
    THEN [st EXCEPT !.threw = ErrConstraintValue]
    ELSE LET pushed == IF JsGt(v, st.max) THEN Append(st.stack, v) ELSE st.stack
         IN  [threw |-> NoThrow, stack |-> pushed,
              max |-> IF Len(pushed) = 0 THEN -1 ELSE MathMax(pushed)]

\* the turns on result[i..k], in order.  The span is halved and the first
\* half is evaluated before the second is entered, which keeps the
\* evaluation shallow; a throw in the first half ends the loop
RECURSIVE handleArray(_, _, _, _, _)
handleArray(result, i, k, st, c) ==
    IF i > k THEN st
    ELSE IF i = k THEN arrayTurn(result[i], st, c)
    ELSE LET mid == (i + k) \div 2
             half == handleArray(result, i, mid, st, c)
         IN  IF half.threw # NoThrow THEN half
             ELSE handleArray(result, mid + 1, k, half, c)

\* the value a scalar is pushed as
foldScalar(fieldName, x) == IF fieldName = "dayOfWeek" THEN JsMod(x, 7) ELSE x

\* what of an array element is kept: the element itself, for every field
foldElement(fieldName, x) == x

handleResult(fieldName, stack, r, c) ==
    IF r.isArray
    THEN LET st == handleArray(
                       [i \in 1..Len(r.result) |->
                           foldElement(fieldName, r.result[i])],
                       1, Len(r.result),
                       [threw |-> NoThrow, stack |-> stack,
                        max |-> IF Len(stack) > 0 THEN MathMax(stack) ELSE -1],
                       c)
         IN  [threw |-> st.threw, stack |-> st.stack]
    ELSE IF JsLt(r.result, c[1]) \/ JsGt(r.result, c[2])
         THEN [threw |-> ErrConstraintValue, stack |-> stack]
         ELSE [threw |-> NoThrow,
               stack |-> Append(stack, foldScalar(fieldName, r.result))]

\* the number the comparator of atoms.sort reads in an atom
sortKey(a) == parseInt(stripNonDigits(a))

\* atoms.sort(comparator): the orders the sort can leave the atoms in.  The
\* comparator returns the difference of two keys.  When every key is a
\* number the sort is the stable one: an atom comes after the atoms of a
\* smaller key and after those of its own key that stood before it.  When a
\* key is NaN the comparator returns NaN, it is no consistent comparison and
\* the order is the engine's own: any order of the atoms
sortAtoms(atoms) ==
    LET n == Len(atoms)
        rank(i) ==
            Cardinality({j \in 1..n : sortKey(atoms[j]) < sortKey(atoms[i])})
                + Cardinality({j \in 1..i : sortKey(atoms[j]) = sortKey(atoms[i])})
    IN  IF \E i \in 1..n : safeIsNaN(sortKey(atoms[i]))
        THEN {[k \in 1..n |-> atoms[p[k]]] : p \in Permutations(1..n)}
        ELSE {[k \in 1..n |-> atoms[CHOOSE i \in 1..n : rank(i) = k]]}

\* the loop of parseSequence over the atoms from i on
RECURSIVE handleAtoms(_, _, _, _, _)
handleAtoms(fieldName, atoms, i, stack, c) ==
    IF i > Len(atoms) THEN [threw |-> NoThrow, stack |-> stack]
    ELSE LET r == parseRepeat(atoms[i], c)
         IN  IF r.threw # NoThrow THEN [threw |-> r.threw, stack |-> stack]
             ELSE LET h == handleResult(fieldName, stack, r, c)
                  IN  IF h.threw # NoThrow THEN h
                      ELSE handleAtoms(fieldName, atoms, i + 1, h.stack, c)

\* parseSequence(val): what the call can give, one [threw, stack] for each
\* order the sort can leave the atoms in
parseSequence(fieldName, val, c) ==
    LET atoms == split(val, ",")
    IN  IF Len(atoms) > 1
        THEN {handleAtoms(fieldName, sorted, 1, <<>>, c) :
                 sorted \in sortAtoms(atoms)}
        ELSE {handleAtoms(fieldName, <<val>>, 1, <<>>, c)}

\* _parseField(field, value, constraints): what the call can give, a set of
\* [threw, stack] (one element, but for a comma list with an atom that holds
\* no digit)
_parseField(fieldName, text, c) ==
    LET replaced == IF fieldName \in {"month", "dayOfWeek"}
                    THEN replaceAliases(fieldName, text) ELSE text
    IN  IF ~validCharacters(replaced)
        THEN {[threw |-> ErrCharacters, stack |-> <<>>]}
        ELSE parseSequence(fieldName, replaceWildcard(replaced, c), c)

-----------------------------------------------------------------------------
(* CronExpression.parse *)

\* the white space of trim() and of \s that a string here can hold: blank,
\* tab, line feed, form feed, carriage return, and, written as the
\* characters themselves, vertical tab (U+000B), no-break space (U+00A0),
\* ogham space mark (U+1680) and zero width no-break space (U+FEFF).  The
\* other spaces of Unicode (U+2000 to U+200A, U+2028, U+2029, U+202F,
\* U+205F, U+3000) cannot be written in a string
WhiteSpace ==
    {" ", "\t", "\n", "\f", "\r", "", " ", " ", "﻿"}

RECURSIVE trimLeft(_)
trimLeft(s) ==
    IF Len(s) > 0 /\ At(s, 1) \in WhiteSpace
    THEN trimLeft(SubSeq(s, 2, Len(s))) ELSE s

RECURSIVE trimRight(_)
trimRight(s) ==
    IF Len(s) > 0 /\ At(s, Len(s)) \in WhiteSpace
    THEN trimRight(SubSeq(s, 1, Len(s) - 1)) ELSE s

trim(s) == trimRight(trimLeft(s))

\* s.split(/\s+/): s is cut at every run of white space
RECURSIVE splitWhiteSpace(_)
splitWhiteSpace(s) ==
    LET hits == {i \in 1..Len(s) : At(s, i) \in WhiteSpace}
    IN  IF hits = {} THEN <<s>>
        ELSE LET k == CHOOSE i \in hits : \A j \in hits : i <= j
             IN  <<SubSeq(s, 1, k - 1)>>
                     \o splitWhiteSpace(trimLeft(SubSeq(s, k + 1, Len(s))))

\* a variant: the atoms are not shifted when fewer than six are given
fieldTextUnshifted(atoms, i) ==
    IF i \notin DOMAIN atoms \/ Len(atoms[i]) = 0
    THEN parseDefaults[i]
    ELSE atoms[i]

\* the text parse hands to _parseField for field i (1-based) of map
fieldText(atoms, i) ==
    LET c == Len(map)
        start == c - Len(atoms)
        k == IF Len(atoms) > c THEN i ELSE i - start
    IN  IF i - 1 < start \/ k \notin DOMAIN atoms \/ Len(atoms[k]) = 0
        THEN parseDefaults[i]
        ELSE atoms[k]

\* the names CronExpression.predefined inherits from Object.prototype: the
\* lookup predefined[expression] finds them too, a function for each but
\* __proto__, which is Object.prototype itself
ObjectPrototype ==
    {"constructor", "__defineGetter__", "__defineSetter__", "hasOwnProperty",
     "__lookupGetter__", "__lookupSetter__", "isPrototypeOf",
     "propertyIsEnumerable", "toString", "valueOf", "__proto__",
     "toLocaleString"}

\* the expression after `if (predefined[expression]) expression =
\* predefined[expression]`, as the string (expression + '') makes of it
expand(expr) ==
    IF expr \in DOMAIN predefined THEN predefined[expr]
    ELSE IF expr = "__proto__" THEN "[object Object]"
    ELSE IF expr = "constructor" THEN "function Object() { [native code] }"
    ELSE IF expr \in ObjectPrototype
    THEN "function " \o expr \o "() { [native code] }"
    ELSE expr

\* the loop of parse over the fields from i (1-based) on: stacks holds the
\* sequences of the fields before i; the first throw of _parseField ends it
RECURSIVE parseFields(_, _, _)
parseFields(atoms, i, stacks) ==
    IF i > Len(map)
    THEN {[threw |-> NoThrow,
           _fields |-> [k \in {map[j] : j \in 1..Len(map)} |->
                           stacks[FieldIndex(k)]]]}
    ELSE UNION {IF r.threw # NoThrow
                THEN {[threw |-> r.threw, _fields |-> <<>>]}
                ELSE parseFields(atoms, i + 1, Append(stacks, r.stack)) :
                   r \in _parseField(map[i], fieldText(atoms, i), constraints[i])}

\* parse(expression): what the call can give, a set of [threw, _fields]
parse(expr) == parseFields(splitWhiteSpace(trim(expand(expr))), 1, <<>>)

-----------------------------------------------------------------------------
(* CronExpression.prototype.test *)

\* a variant: the first element that is > value decides
matchScheduleGreater(v, sequence) ==
    LET reached == {i \in 1..Len(sequence) : JsGt(sequence[i], v)}
    IN  IF reached # {}
        THEN JsStrictEq(sequence[CHOOSE i \in reached : \A j \in reached : i <= j], v)
        ELSE Len(sequence) > 0 /\ JsStrictEq(sequence[1], v)

\* matchSchedule(value, sequence): the first element that is >= value
\* decides; with no such element sequence[0] === value does (undefined, of an
\* empty sequence, equals no value)
matchSchedule(v, sequence) ==
    LET reached == {i \in 1..Len(sequence) : JsGe(sequence[i], v)}
    IN  IF reached # {}
        THEN JsStrictEq(sequence[CHOOSE i \in reached : \A j \in reached : i <= j], v)
        ELSE Len(sequence) > 0 /\ JsStrictEq(sequence[1], v)

isWildcardRange(range, c) ==
    IF Len(range) = 0 THEN FALSE
    ELSE IF Len(c) # 2 THEN FALSE
    ELSE Len(range) = c[2] - (IF c[1] < 1 THEN -1 ELSE 0)

isLeapYear(year) ==
    ~((year % 4) # 0 \/ ((year % 100) = 0 /\ (year % 400) # 0))

\* a variant: the leap-year branch sets _daysInPreviousMonth alone
leapAdjustedDaysOnly(year, daysInPreviousMonth, daysOfMontRangeMax) ==
    IF (year % 4) = 0 /\ ((year % 100) # 0 \/ (year % 400) = 0)
    THEN <<29, daysOfMontRangeMax>>
    ELSE <<daysInPreviousMonth, daysOfMontRangeMax>>

\* the values the leap-year branch leaves in _daysInPreviousMonth and
\* _daysOfMontRangeMax
leapAdjusted(year, daysInPreviousMonth, daysOfMontRangeMax) ==
    IF isLeapYear(year) THEN <<29, 29>>
    ELSE <<daysInPreviousMonth, daysOfMontRangeMax>>

\* "Validate days in month if explicit value is given": TRUE when it throws
invalidDayOfMonth(f, d) ==
    IF isWildcardRange(f["month"], constraints[5]) THEN FALSE
    ELSE LET currentMonth == d.month + 1
             previousMonth == IF currentMonth = 1 THEN 11 ELSE currentMonth - 1
             daysInPreviousMonth == daysInMonth[previousMonth]
             daysOfMontRangeMax == f["dayOfMonth"][Len(f["dayOfMonth"])]
             adj == leapAdjusted(d.year, daysInPreviousMonth, daysOfMontRangeMax)
         IN  /\ previousMonth = 2
             /\ JsStrictEq(f["month"][1], previousMonth)
             /\ JsLt(adj[1], adj[2])

\* a variant: with both fields restricted, both have to match
daySelectedBoth(f, d) ==
    LET dayOfMonthMatch == matchSchedule(d.date, f["dayOfMonth"])
        dayOfWeekMatch == matchSchedule(d.day, f["dayOfWeek"])
    IN  dayOfMonthMatch /\ dayOfWeekMatch

\* the four returns of the day of month / day of week matching: TRUE when
\* none of them is taken
daySelected(f, d) ==
    LET dayOfMonthMatch == matchSchedule(d.date, f["dayOfMonth"])
        dayOfWeekMatch == matchSchedule(d.day, f["dayOfWeek"])
        isDayOfMonthWildcardMatch == isWildcardRange(f["dayOfMonth"], constraints[4])
        isDayOfWeekWildcardMatch == isWildcardRange(f["dayOfWeek"], constraints[6])
    IN  /\ ~(~dayOfMonthMatch /\ ~dayOfWeekMatch)
        /\ ~(~isDayOfMonthWildcardMatch /\ isDayOfWeekWildcardMatch /\ ~dayOfMonthMatch)
        /\ ~(isDayOfMonthWildcardMatch /\ ~isDayOfWeekWildcardMatch /\ ~dayOfWeekMatch)
        /\ ~(~(isDayOfMonthWildcardMatch /\ isDayOfWeekWildcardMatch)
               /\ ~dayOfMonthMatch /\ ~dayOfWeekMatch)

\* test(inputDate): "true", "false" or the message thrown
test(f, d) ==
    IF invalidDayOfMonth(f, d) THEN ErrDayOfMonth
    ELSE IF ~daySelected(f, d) THEN "false"
    ELSE IF ~matchSchedule(d.month + 1, f["month"]) THEN "false"
    ELSE IF ~matchSchedule(d.hours, f["hour"]) THEN "false"
    ELSE IF ~matchSchedule(d.minutes, f["minute"]) THEN "false"
    ELSE IF ~matchSchedule(d.seconds, f["second"]) THEN "false"
    ELSE "true"

-----------------------------------------------------------------------------
(* CronDate: the calendar components of an instant.  The instant is given   *)
(* by its civil date and time; the day of the week follows from the date.   *)

monthOffsets == <<0, 3, 2, 5, 0, 3, 5, 1, 4, 6, 2, 4>>

\* getDay(): 0 is Sunday; month is 0-based as getMonth() gives it
getDay(year, month, date) ==
    LET y == IF month + 1 < 3 THEN year - 1 ELSE year
    IN  (y + (y \div 4) - (y \div 100) + (y \div 400)
           + monthOffsets[month + 1] + date) % 7

\* the days of a month (0-based) of a year
daysOf(year, month) ==
    IF month = 1 /\ isLeapYear(year) THEN 29 ELSE daysInMonth[month + 1]

CronDate(year, month, date, hours, minutes, seconds) ==
    [year |-> year, month |-> month, date |-> date,
     day |-> getDay(year, month, date),
     hours |-> hours, minutes |-> minutes, seconds |-> seconds]

-----------------------------------------------------------------------------
(* The inputs drawn *)

MaxStep == 3      \* steps 0..MaxStep are written after '/'
MaxValue == 3     \* matchSchedule is called on values and elements 0..MaxValue
MaxSeqLen == 3    \* and on sequences of at most MaxSeqLen elements

FieldNames == {map[i] : i \in 1..Len(map)}

Numerals == {"0", "1", "5", "7", "9", "23", "31", "60"}
RangeEnds == {"0", "1", "5", "7", "9"}
StepTexts == {ToString(n) : n \in 0..MaxStep}

Ranges == {a \o "-" \o b : a \in RangeEnds, b \in RangeEnds}
SteppedRanges == {r \o "/" \o n : r \in Ranges, n \in StepTexts}
SteppedScalars == {a \o "/" \o n : a \in Numerals, n \in StepTexts}
Wildcards == {"*"} \cup {"*/" \o n : n \in StepTexts}
Names == {"jan", "feb", "DEC", "sun", "Fri", "mon-fri", "foo", "x", "janu", "ja"}
Malformed == {"-", "-5", "5-", "1-5-9", "1|2", "1-5/|", "/", "1 2", "09", "0-09"}

\* the atoms put in comma lists
ListAtoms ==
    {"0", "1", "5", "6", "7", "9", "0-9", "1-5", "5-7", "1-7", "0-9/3", "5/2",
     "23", "*", "*/2", "sun", "fri"}

FieldTexts ==
    Numerals \cup Ranges \cup SteppedRanges \cup SteppedScalars \cup Wildcards
        \cup Names \cup Malformed
        \cup {a \o "," \o b : a \in ListAtoms, b \in ListAtoms}
        \cup {"0-9,23,5", "1,1,1", "7,6,5", "0,1,2,3,4,5,6,7"}
        \cup {"5,,1", "-,1-5", "7,6,,", "1-5,7,,007"}

DayOfMonthTexts == {"*", "1,15", "1-31", "2-31", "1-31,31"}
DayOfWeekTexts == {"*", "5", "0-7", "0-6", "1-5", "7", "6,7", "1-7", "sun",
                   "0,1,2,3,4,5,6,7"}
LastDayTexts == {"28", "29", "30", "31", "*", "28,30"}
MonthTexts == {"2", "feb", "2,3", "3", "1-2", "*", "1-12", "2-12"}

Expressions ==
    {"* 0-9,23 * * 1-5", "30 4 1,15 * 5",
     "@yearly", "@monthly", "@weekly", "@daily", "@hourly",
     "0 * * * * *", "* 0 * * * *", "", "  * 4   * * *  ", "* * * * * * *",
     "* * * 7", "* * * * foo *", "* * * * * mon-fri", "60 * * * * *",
     "*\t*\t*\t*\t*", "* * * * 2\n", "\r\n 30 4 \f * * 5", "* 5,,1 * * *",
     "*****", "* * * * 2", "﻿* * * * * ",
     "toString", "constructor", "__proto__",
     "* * * * * 5-7", "* * * * * 7,1", "* * * * * */7", "* * * * 7"}
        \cup {"30 4 " \o dom \o " * " \o dow :
                 dom \in DayOfMonthTexts, dow \in DayOfWeekTexts}
        \cup {"* * " \o dom \o " " \o mon \o " *" :
                 dom \in LastDayTexts, mon \in MonthTexts}
        \cup {"* * * * * " \o dow : dow \in DayOfWeekTexts}

Years == {2017, 2020}
Months == {0, 1, 2, 11}
DaysOfMonth == {1, 2, 3, 4, 5, 6, 7, 15, 28, 29, 30, 31}
Hours == {0, 4, 8, 9, 10, 12, 23}
Minutes == {13, 30}
Seconds == {0, 42}

\* the instants test is called on: the dates the calendar has
Days == {ymd \in Years \X Months \X DaysOfMonth : ymd[3] <= daysOf(ymd[1], ymd[2])}
Dates ==
    {CronDate(ymd[1], ymd[2], ymd[3], h, mi, sec) :
        ymd \in Days, h \in Hours, mi \in Minutes, sec \in Seconds}

\* sequences of at most n elements of S
RECURSIVE SeqsUpTo(_, _)
SeqsUpTo(S, n) ==
    IF n = 0 THEN {<<>>}
    ELSE LET shorter == SeqsUpTo(S, n - 1)
         IN  shorter \cup {Append(q, x) : q \in shorter, x \in S}

-----------------------------------------------------------------------------
(* The calls *)

NotCalled == [threw |-> "not called", stack |-> <<>>]
NotParsed == [threw |-> "not parsed", _fields |-> <<>>]
NoDate == CronDate(1970, 0, 1, 0, 0, 0)
NoArgs == [value |-> 0, sequence |-> <<>>]

\* CronExpression._parseField(field, value, constraints)
ParseField ==
    /\ pc = "field"
    /\ parsed' \in _parseField(field, value, constraints[FieldIndex(field)])
    /\ pc' = IF parsed'.threw = NoThrow THEN "fieldParsed" ELSE "fieldThrew"
    /\ UNCHANGED <<field, value, expression, fields, inputDate, outcome,
                   matchArgs, matchRet>>

\* CronExpression.parse(expression)
Parse ==
    /\ pc = "expression"
    /\ fields' \in parse(expression)
    /\ pc' = IF fields'.threw = NoThrow THEN "parsed" ELSE "parseThrew"
    /\ UNCHANGED <<field, value, parsed, expression, inputDate, outcome,
                   matchArgs, matchRet>>

\* interval.test(inputDate) on a parsed expression.  test reads _fields and
\* writes nothing, so a second call starts where the first did: one call is
\* followed here
Test ==
    /\ pc = "parsed"
    /\ \E d \in Dates :
           /\ inputDate' = d
           /\ outcome' = test(fields._fields, d)
    /\ pc' = "tested"
    /\ UNCHANGED <<field, value, parsed, expression, fields, matchArgs, matchRet>>

\* matchSchedule(value, sequence)
Match ==
    /\ pc = "match"
    /\ matchRet' = matchSchedule(matchArgs.value, matchArgs.sequence)
    /\ pc' = "matched"
    /\ UNCHANGED <<field, value, parsed, expression, fields, inputDate, outcome,
                   matchArgs>>

Idle(v) ==
    /\ (v # "field") => (field = "" /\ value = "")
    /\ parsed = NotCalled
    /\ (v # "expression") => expression = ""
    /\ fields = NotParsed
    /\ inputDate = NoDate
    /\ outcome = "none"
    /\ (v # "match") => matchArgs = NoArgs
    /\ matchRet = FALSE

\* _parseField on every field and field text drawn
InitField ==
    /\ pc = "field"
    /\ field \in FieldNames
    /\ value \in FieldTexts
    /\ Idle("field")

SpecField == InitField /\ [][ParseField]_vars

\* parse, then test, on every expression and instant drawn
InitTest ==
    /\ pc = "expression"
    /\ expression \in Expressions
    /\ Idle("expression")

NextTest == Parse \/ Test

SpecTest == InitTest /\ [][NextTest]_vars

\* matchSchedule on every value and sequence drawn, ascending or not, NaN
\* among the elements
InitMatch ==
    /\ pc = "match"
    /\ matchArgs \in [value : 0..(MaxValue + 1),
                      sequence : SeqsUpTo((0..MaxValue) \cup {NaN}, MaxSeqLen)]
    /\ Idle("match")

SpecMatch == InitMatch /\ [][Match]_vars

Init == InitField \/ InitTest \/ InitMatch

Next == ParseField \/ Parse \/ Test \/ Match

Spec == Init /\ [][Next]_vars

-----------------------------------------------------------------------------
(* Properties *)

Elements(q) == {q[i] : i \in 1..Len(q)}

\* the elements of a set of integers, ascending
Ascending(S) ==
    [i \in 1..Cardinality(S) |->
        CHOOSE x \in S : Cardinality({y \in S : y < x}) = i - 1]

StrictlyAscending(q) ==
    /\ \A i \in 1..Len(q) : ~safeIsNaN(q[i])
    /\ \A i \in 1..(Len(q) - 1) : q[i] < q[i + 1]

FieldDone == pc \in {"fieldParsed", "fieldThrew"}
Compiled == fields._fields

ReadmeExpression == "* 0-9,23 * * 1-5"
ReadmeHours == (0..9) \cup {23}

\* C1: for "* 0-9,23 * * 1-5", test returns true exactly when the hour of
\* the instant is in {0..9, 23} and its weekday in {1..5}, whatever its
\* second, minute, day of month and month; it never throws.
C1_ReadmeSchedule ==
    (pc = "tested" /\ expression = ReadmeExpression) =>
        /\ outcome \in {"true", "false"}
        /\ outcome = "true" <=>
               (inputDate.hours \in ReadmeHours /\ inputDate.day \in 1..5)

\* Wednesday 2017-12-06 08:13:42 matches
C1_Witness ==
    /\ pc = "tested" /\ expression = ReadmeExpression
    /\ inputDate = CronDate(2017, 11, 6, 8, 13, 42)
    /\ inputDate.day = 3
    /\ outcome = "true"

\* a compiled set spans the whole range of its constraints
Spans(q, c) == Elements(q) = c[1]..c[2]

\* the premise of C2: the field is counted as wildcard exactly when its
\* compiled set spans its whole range
WildcardsExact ==
    /\ isWildcardRange(Compiled["dayOfMonth"], constraints[4])
           <=> Spans(Compiled["dayOfMonth"], constraints[4])
    /\ isWildcardRange(Compiled["dayOfWeek"], constraints[6])
           <=> Spans(Compiled["dayOfWeek"], constraints[6])

\* the day rule as C2 states it
DayRule ==
    LET domRestricted == ~Spans(Compiled["dayOfMonth"], constraints[4])
        dowRestricted == ~Spans(Compiled["dayOfWeek"], constraints[6])
        domMatch == matchSchedule(inputDate.date, Compiled["dayOfMonth"])
        dowMatch == matchSchedule(inputDate.day, Compiled["dayOfWeek"])
    IN  \/ domRestricted /\ dowRestricted /\ (domMatch \/ dowMatch)
        \/ domRestricted /\ ~dowRestricted /\ domMatch
        \/ ~domRestricted /\ dowRestricted /\ dowMatch
        \/ ~domRestricted /\ ~dowRestricted

OtherFieldsMatch ==
    /\ matchSchedule(inputDate.month + 1, Compiled["month"])
    /\ matchSchedule(inputDate.hours, Compiled["hour"])
    /\ matchSchedule(inputDate.minutes, Compiled["minute"])
    /\ matchSchedule(inputDate.seconds, Compiled["second"])

CrontabExpression == "30 4 1,15 * 5"

\* C2: when the wildcards are counted exactly and test does not throw, the
\* instant passes the day selection iff both day fields are restricted and
\* one of them matches, or only one is restricted and it matches, or both
\* are wildcards; so, the other fields matching, test returns true exactly
\* then.  "30 4 1,15 * 5" at 04:30 matches on the 1st, on the 15th and on
\* every Friday, and on no other day.
C2_DaySelection ==
    (pc = "tested" /\ outcome # ErrDayOfMonth) =>
        /\ (WildcardsExact /\ OtherFieldsMatch) => (outcome = "true" <=> DayRule)
        /\ (WildcardsExact /\ ~DayRule) => outcome = "false"
        /\ (expression = CrontabExpression
              /\ inputDate.hours = 4 /\ inputDate.minutes = 30) =>
               (outcome = "true" <=>
                   (inputDate.date \in {1, 15} \/ inputDate.day = 5))

\* a Friday that is neither the 1st nor the 15th, at 04:30: selected by the
\* day of week alone
C2_Witness ==
    /\ pc = "tested" /\ expression = CrontabExpression
    /\ inputDate.hours = 4 /\ inputDate.minutes = 30
    /\ inputDate.day = 5 /\ inputDate.date \notin {1, 15}
    /\ outcome = "true"

\* C3: every sequence _parseField returns is strictly ascending, without
\* duplicate, and made of integers within the constraints of the field.
C3_SortedWithinConstraints ==
    (pc = "fieldParsed") =>
        /\ StrictlyAscending(parsed.stack)
        /\ \A x \in Elements(parsed.stack) :
               x >= constraints[FieldIndex(field)][1]
                   /\ x <= constraints[FieldIndex(field)][2]

\* the day-of-week texts in which 7 is written or emitted
SevenTexts == {"7", "6,7", "1-7", "5-7", "7,1"}

\* C4: a 7 in the day-of-week field, scalar, list element or emitted by a
\* range, is compiled as 0, so with the other fields wildcards every Sunday
\* instant matches.
C4_SevenIsSunday ==
    (pc \in {"parsed", "tested"}
        /\ \E dow \in SevenTexts : expression = "* * * * * " \o dow) =>
        /\ 0 \in Elements(Compiled["dayOfWeek"])
        /\ 7 \notin Elements(Compiled["dayOfWeek"])
        /\ (pc = "tested" /\ inputDate.day = 0) => outcome = "true"

HourlyFields ==
    [second     |-> Ascending(0..59),
     minute     |-> <<0>>,
     hour       |-> Ascending(0..23),
     dayOfMonth |-> Ascending(1..31),
     month      |-> Ascending(1..12),
     dayOfWeek  |-> Ascending(0..7)]

\* C5 as stated: "@hourly" compiles to the fields of "0 * * * * *".
C5_HourlyIsSecondZero ==
    (pc = "parsed" /\ expression = "@hourly") =>
        \E r \in parse("0 * * * * *") : Compiled = r._fields

\* C5 amended: "@hourly" is "0 * * * *" with the seconds defaulted to the
\* wildcard: it compiles to the fields of "* 0 * * * *", every second of
\* minute 0 of every hour.
C5_HourlyIsMinuteZero ==
    (pc = "parsed" /\ expression \in {"@hourly", "* 0 * * * *"}) =>
        (fields.threw = NoThrow /\ Compiled = HourlyFields)

C5_Witness ==
    /\ pc = "parsed" /\ expression = "@hourly"
    /\ Compiled["minute"] = <<0>>
    /\ Len(Compiled["second"]) = 60

\* the runs of letters /[a-z]{1,3}/gi finds in s
RECURSIVE LetterRuns(_)
LetterRuns(s) ==
    IF Len(s) = 0 THEN {}
    ELSE LET n == LetterRun(s)
         IN  IF n = 0 THEN LetterRuns(SubSeq(s, 2, Len(s)))
             ELSE {toLowerCase(SubSeq(s, 1, n))}
                      \cup LetterRuns(SubSeq(s, n + 1, Len(s)))

\* C6: in the month and dayOfWeek fields a run of letters that is no key of
\* the field's alias table makes _parseField throw 'Cannot resolve alias'.
C6_UnknownAliasThrows ==
    (FieldDone /\ field \in {"month", "dayOfWeek"}
        /\ \E r \in LetterRuns(value) : r \notin DOMAIN aliases(field)) =>
        parsed.threw = ErrAlias

\* the parts of a text a/n or a-b/n
StepOf(text) == ToNumber(split(text, "/")[2])
BaseOf(text) == split(text, "/")[1]
LowOf(text) == ToNumber(split(BaseOf(text), "-")[1])
HighOf(text) == ToNumber(split(BaseOf(text), "-")[2])

\* C7: a/n, a within the constraints and n positive, compiles as
\* a-<max>/n does.
C7_StepFromScalar ==
    (FieldDone /\ value \in SteppedScalars
        /\ LowOf(value) >= constraints[FieldIndex(field)][1]
        /\ LowOf(value) <= constraints[FieldIndex(field)][2]
        /\ StepOf(value) >= 1) =>
        parsed \in _parseField(field,
                       BaseOf(value) \o "-"
                           \o ToString(constraints[FieldIndex(field)][2])
                           \o "/" \o split(value, "/")[2],
                       constraints[FieldIndex(field)])

\* a stepped range the constraints of the field accept
ValidSteppedRange ==
    /\ FieldDone /\ value \in SteppedRanges
    /\ LowOf(value) >= constraints[FieldIndex(field)][1]
    /\ HighOf(value) <= constraints[FieldIndex(field)][2]
    /\ LowOf(value) < HighOf(value)
    /\ StepOf(value) >= 1

\* C8 as stated: the walk over a..b starts its counter at 1, so that 0-9/3
\* emits 2, 5, 8.
C8_CounterFromOne ==
    /\ ValidSteppedRange =>
           parsed.stack = repeatLoop(LowOf(value), HighOf(value),
                                     [repeatIndex |-> 1, stack |-> <<>>],
                                     StepOf(value)).stack
    /\ (FieldDone /\ field = "minute" /\ value = "0-9/3") =>
           parsed.stack = <<2, 5, 8>>

\* C8 amended: the counter starts at the step n, so the first index is
\* emitted and then every n-th one: a-b/n emits a, a+n, a+2n, ... up to b,
\* and 0-9/3 emits 0, 3, 6, 9.
C8_EveryNthFromLow ==
    /\ ValidSteppedRange =>
           /\ parsed.threw = NoThrow
           /\ parsed.stack =
                  Ascending({i \in LowOf(value)..HighOf(value) :
                                (i - LowOf(value)) % StepOf(value) = 0})
    /\ (FieldDone /\ field = "minute" /\ value = "0-9/3") =>
           parsed.stack = <<0, 3, 6, 9>>

C8_Witness ==
    /\ pc = "fieldParsed" /\ field = "minute" /\ value = "0-9/3"
    /\ parsed.stack = <<0, 3, 6, 9>>

IsLeap(year) == (year % 4) = 0 /\ ((year % 100) # 0 \/ (year % 400) = 0)
Last(q) == q[Len(q)]

\* C9 as stated: test throws exactly when the month field is no wildcard,
\* the instant is in March, the month set starts with 2 and the last day of
\* month exceeds the days of February of that year (28, 29 in a leap year).
C9_ThrowsBeyondFebruary ==
    (pc = "tested") =>
        (outcome = ErrDayOfMonth <=>
            /\ Len(Compiled["month"]) # 12
            /\ inputDate.month = 2
            /\ Compiled["month"][1] = 2
            /\ ~safeIsNaN(Last(Compiled["dayOfMonth"]))
            /\ Last(Compiled["dayOfMonth"]) >
                   (IF IsLeap(inputDate.year) THEN 29 ELSE 28))

\* C9 amended: test throws exactly when the month field is no wildcard (its
\* set does not hold 12 elements), the instant is in March of a year that
\* is not a leap year, the month set starts with 2 and the last day of
\* month exceeds 28; in a leap year, and in every other case, it returns a
\* boolean.
C9_ThrowsOutsideLeapYears ==
    (pc = "tested") =>
        /\ outcome \in {"true", "false", ErrDayOfMonth}
        /\ outcome = ErrDayOfMonth <=>
               /\ Len(Compiled["month"]) # 12
               /\ inputDate.month = 2
               /\ ~IsLeap(inputDate.year)
               /\ Compiled["month"][1] = 2
               /\ ~safeIsNaN(Last(Compiled["dayOfMonth"]))
               /\ Last(Compiled["dayOfMonth"]) > 28

\* March 2017, month 2 and day 30: thrown
C9_Witness ==
    /\ pc = "tested" /\ expression = "* * 30 2 *"
    /\ inputDate.year = 2017 /\ inputDate.month = 2
    /\ outcome = ErrDayOfMonth

\* C10: matchSchedule returns true only for an element of the sequence, and
\* for a strictly ascending sequence exactly for its elements.
C10_MatchIsMembership ==
    (pc = "matched") =>
        /\ matchRet => matchArgs.value \in Elements(matchArgs.sequence)
        /\ StrictlyAscending(matchArgs.sequence) =>
               (matchRet <=> matchArgs.value \in Elements(matchArgs.sequence))

\* a sequence that is not ascending, and an element of it that is refused
C10_Witness ==
    /\ pc = "matched"
    /\ ~StrictlyAscending(matchArgs.sequence)
    /\ matchArgs.value \in Elements(matchArgs.sequence)
    /\ ~matchRet

=============================================================================
